---- MODULE Spec2Model ----
(***************************************************************************)
(* Model of the structure decoder of mcstructure_schematic_app:            *)
(*   src/nbt_parser.js   parseMCStructureBinary (gzip gate, tag-tree       *)
(*                       decode with fallback) and transformStructure      *)
(*                       (size, palette, material histogram, voxel list).  *)
(*                                                                         *)
(* JavaScript values are modelled as tagged records so that the loosely    *)
(* typed decoded tree can be enumerated:                                   *)
(*   - a JS number is [k, n]: k = "fin" (the integer n), "nan" or "inf"    *)
(*     (n is the sign);                                                    *)
(*   - a JS string is the sequence of its character codes;                 *)
(*   - a scalar of the decoded tree is [t, num, s]: t is its typeof        *)
(*     ("number", "bigint", "string", "undefined", "null", "object"),      *)
(*     num its numeric payload, s its characters.                          *)
(* Non-integer finite numbers are outside the model.                       *)
(***************************************************************************)
EXTENDS Integers, Sequences, FiniteSets, TLC

(***************************************************************************)
(* Bounds of the enumerated inputs.                                        *)
(***************************************************************************)
MaxDim == 2
MaxLayerLen == 2
MaxLayers == 2
MaxPalette == 2
MaxBufLen == 3
MaxSizeLen == 4
MaxRepeats == 2
MaxZips == 2
MaxManagerCalls == 3

(***************************************************************************)
(* JS numbers.                                                             *)
(***************************************************************************)
Fin(i) == [k |-> "fin", n |-> i]
NaN == [k |-> "nan", n |-> 0]
Inf(sgn) == [k |-> "inf", n |-> sgn]

IsFinite(a) == a.k = "fin"

Sign(a) == IF a.n > 0 THEN 1 ELSE IF a.n < 0 THEN -1 ELSE 0

\* a * b
JsMul(a, b) ==
    IF a.k = "nan" \/ b.k = "nan" THEN NaN
    ELSE IF a.k = "fin" /\ b.k = "fin" THEN Fin(a.n * b.n)
    ELSE IF Sign(a) * Sign(b) = 0 THEN NaN
    ELSE Inf(Sign(a) * Sign(b))

\* a < b
JsLt(a, b) ==
    IF a.k = "nan" \/ b.k = "nan" THEN FALSE
    ELSE IF a.k = "fin" /\ b.k = "fin" THEN a.n < b.n
    ELSE IF a.k = "inf" /\ b.k = "inf" THEN a.n < b.n
    ELSE IF a.k = "inf" THEN a.n < 0
    ELSE b.n > 0

\* a >= b
JsGe(a, b) ==
    IF a.k = "nan" \/ b.k = "nan" THEN FALSE
    ELSE ~JsLt(a, b)

\* Math.min(a, b)
JsMin(a, b) ==
    IF a.k = "nan" \/ b.k = "nan" THEN NaN
    ELSE IF JsLt(b, a) THEN b ELSE a

\* floor of the quotient of integers a and b, b # 0
FloorDiv(a, b) ==
    IF b > 0 THEN a \div b
    ELSE (-a) \div (-b)

\* Math.floor(idx / d) for an integer idx >= 0
JsFloorDiv(idx, d) ==
    IF d.k = "nan" THEN NaN
    ELSE IF d.k = "inf" THEN Fin(0)
    ELSE IF d.n = 0 THEN (IF idx = 0 THEN NaN ELSE Inf(1))
    ELSE Fin(FloorDiv(idx, d.n))

\* idx % d for an integer idx >= 0 (the result takes the sign of idx)
JsRem(idx, d) ==
    IF d.k = "nan" THEN NaN
    ELSE IF d.k = "inf" THEN Fin(idx)
    ELSE IF d.n = 0 THEN NaN
    ELSE Fin(idx % (IF d.n > 0 THEN d.n ELSE -d.n))

(***************************************************************************)
(* JS strings (character codes) and the literals of the source.            *)
(***************************************************************************)
\* "minecraft:air"
AirName == <<109, 105, 110, 101, 99, 114, 97, 102, 116, 58, 97, 105, 114>>
\* "minecraft:unknown"
UnknownName ==
    <<109, 105, 110, 101, 99, 114, 97, 102, 116, 58, 117, 110, 107, 110, 111, 119, 110>>
\* "minecraft:stone"
StoneName == <<109, 105, 110, 101, 99, 114, 97, 102, 116, 58, 115, 116, 111, 110, 101>>
\* "Minecraft:AIR"
AirNameUpper == <<77, 105, 110, 101, 99, 114, 97, 102, 116, 58, 65, 73, 82>>
\* "Minecraft:Stone"
StoneNameUpper == <<77, 105, 110, 101, 99, 114, 97, 102, 116, 58, 83, 116, 111, 110, 101>>

\* String.prototype.toLowerCase on the ASCII range
ToLowerCase(s) == [i \in DOMAIN s |-> IF s[i] \in 65..90 THEN s[i] + 32 ELSE s[i]]

IsDigit(c) == c \in 48..57

AllDigits(s) == \A i \in DOMAIN s : IsDigit(s[i])

RECURSIVE DecValue(_)
DecValue(s) ==
    IF s = <<>> THEN 0
    ELSE 10 * DecValue(SubSeq(s, 1, Len(s) - 1)) + (s[Len(s)] - 48)

\* Number(string), for strings of digits with an optional sign
StringToNumber(s) ==
    IF s = <<>> THEN Fin(0)
    ELSE IF AllDigits(s) THEN Fin(DecValue(s))
    ELSE IF s[1] = 45 /\ Len(s) > 1 /\ AllDigits(Tail(s)) THEN Fin(0 - DecValue(Tail(s)))
    ELSE IF s[1] = 43 /\ Len(s) > 1 /\ AllDigits(Tail(s)) THEN Fin(DecValue(Tail(s)))
    ELSE NaN

\* length of the longest prefix of digits
RECURSIVE DigitPrefixLen(_)
DigitPrefixLen(s) ==
    IF s = <<>> \/ ~IsDigit(s[1]) THEN 0 ELSE 1 + DigitPrefixLen(Tail(s))

\* parseInt(string, 10): optional sign, then the longest prefix of digits
ParseInt(s) ==
    LET neg == s # <<>> /\ s[1] = 45
        signed == s # <<>> /\ s[1] \in {43, 45}
        body == IF signed THEN Tail(s) ELSE s
        p == DigitPrefixLen(body)
    IN  IF p = 0 THEN NaN
        ELSE IF neg THEN Fin(0 - DecValue(SubSeq(body, 1, p)))
        ELSE Fin(DecValue(SubSeq(body, 1, p)))

(***************************************************************************)
(* Scalars of the decoded tree.                                            *)
(***************************************************************************)
NumberVal(i) == [t |-> "number", num |-> Fin(i), s |-> <<>>]
InfVal == [t |-> "number", num |-> Inf(1), s |-> <<>>]
BigIntVal(i) == [t |-> "bigint", num |-> Fin(i), s |-> <<>>]
StringVal(s) == [t |-> "string", num |-> Fin(0), s |-> s]
Undefined == [t |-> "undefined", num |-> Fin(0), s |-> <<>>]
\* an object; s tells two objects apart, <<>> is the literal {}
ObjectVal(s) == [t |-> "object", num |-> Fin(0), s |-> s]

IsNullish(v) == v.t \in {"undefined", "null"}

\* v ?? d
Coalesce(v, d) == IF IsNullish(v) THEN d ELSE v

\* Number(v)
JsNumber(v) ==
    CASE v.t = "number" -> v.num
      [] v.t = "bigint" -> v.num
      [] v.t = "string" -> StringToNumber(v.s)
      [] v.t = "null" -> Fin(0)
      [] OTHER -> NaN

\* sequence[i] of a JS array, i counted from 0
At(items, i) == IF i + 1 \in DOMAIN items THEN items[i + 1] ELSE Undefined

(***************************************************************************)
(* The decoded tree.                                                       *)
(*   root      = [size, structure]                                         *)
(*   size      = [t, items]            t = "undefined", "null" or "array"   *)
(*   structure = [t, palette, block_indices]                               *)
(*   palette   = [t, items]            the value at                        *)
(*               structure.palette?.default?.block_palette                 *)
(*   block_indices = [t, keys, items]  t = "array": items are the layers;   *)
(*               t = "object": keys[i] maps to items[i], in insertion order *)
(*   layer     = [t, items]            t = "array" or another typeof        *)
(*   palette entry = [t, name, states, version]                            *)
(***************************************************************************)
ArrayOf(items) == [t |-> "array", items |-> items]
NoArray(t) == [t |-> t, items |-> <<>>]

BlockIndicesArray(layers) == [t |-> "array", keys |-> <<>>, items |-> layers]
BlockIndicesObject(keys, layers) == [t |-> "object", keys |-> keys, items |-> layers]
BlockIndicesAbsent == [t |-> "undefined", keys |-> <<>>, items |-> <<>>]

Section(palette, blockIndices) ==
    [t |-> "object", palette |-> palette, block_indices |-> blockIndices]
\* the literal {} of `rootCompound.structure ?? {}`
EmptySection == Section(NoArray("undefined"), BlockIndicesAbsent)
AbsentSection ==
    [t |-> "undefined", palette |-> NoArray("undefined"), block_indices |-> BlockIndicesAbsent]

Entry(name, states, version) ==
    [t |-> "object", name |-> name, states |-> states, version |-> version]
NullEntry == [t |-> "null", name |-> Undefined, states |-> Undefined, version |-> Undefined]

\* entry?.field
EntryName(entry) == IF entry.t \in {"undefined", "null"} THEN Undefined ELSE entry.name
EntryStates(entry) == IF entry.t \in {"undefined", "null"} THEN Undefined ELSE entry.states
EntryVersion(entry) == IF entry.t \in {"undefined", "null"} THEN Undefined ELSE entry.version

(***************************************************************************)
(* normalizeSize, toNumber                                                 *)
(***************************************************************************)
\* sizeList[0] on null is a TypeError; the default [] replaces undefined only
NormalizeSizeThrows(sizeList) == sizeList.t = "null"

\* Number(sizeList[i] ?? 0)
SizeComponent(sizeList, i) == JsNumber(Coalesce(At(sizeList.items, i), NumberVal(0)))

NormalizeSize(sizeList) ==
    LET l == IF sizeList.t = "undefined" THEN ArrayOf(<<>>) ELSE sizeList
    IN  [x |-> SizeComponent(l, 0), y |-> SizeComponent(l, 1), z |-> SizeComponent(l, 2)]

ToNumber(value) ==
    IF value.t = "number" THEN value.num
    ELSE IF value.t = "bigint" THEN JsNumber(value)
    ELSE JsNumber(Coalesce(value, NumberVal(0)))

(***************************************************************************)
(* buildPalette                                                            *)
(***************************************************************************)
\* rawPalette.map on a value that is neither nullish nor an array is a TypeError
BuildPaletteThrows(structureSection) ==
    structureSection.palette.t \notin {"undefined", "null", "array"}

BuildPalette(structureSection) ==
    LET rawPalette == IF structureSection.palette.t = "array"
                      THEN structureSection.palette.items ELSE <<>>
    IN  [i \in DOMAIN rawPalette |->
            [index |-> i - 1,
             name |-> Coalesce(EntryName(rawPalette[i]), StringVal(UnknownName)),
             states |-> Coalesce(EntryStates(rawPalette[i]), ObjectVal(<<>>)),
             version |-> Coalesce(EntryVersion(rawPalette[i]), NumberVal(0))]]

(***************************************************************************)
(* buildMaterialCounts                                                     *)
(***************************************************************************)
\* (entry?.name ?? 'minecraft:unknown').toLowerCase()
PaletteNames(palette) ==
    [i \in DOMAIN palette |->
        ToLowerCase(Coalesce(palette[i].name, StringVal(UnknownName)).s)]

\* .toLowerCase of a name that is no string, or .forEach of a block_indices
\* that is neither nullish nor an array, is a TypeError
BuildMaterialCountsThrows(structureSection, palette) ==
    \/ \E i \in DOMAIN palette : Coalesce(palette[i].name, StringVal(UnknownName)).t # "string"
    \/ structureSection.block_indices.t \notin {"undefined", "null", "array"}

HistogramSkipsIndex_ZeroExcluded(index, paletteLength) ==
    ~IsFinite(index) \/ index.n <= 0 \/ index.n >= paletteLength

\* !Number.isFinite(index) || index < 0 || index >= paletteNames.length
HistogramSkipsIndex(index, paletteLength) ==
    ~IsFinite(index) \/ index.n < 0 \/ index.n >= paletteLength

HistogramSkipsName_KeepAir(blockName) == blockName = <<>>

\* !blockName || blockName === 'minecraft:air'
HistogramSkipsName(blockName) == blockName = <<>> \/ blockName = AirName

\* counts[blockName] = (counts[blockName] || 0) + 1
Increment(counts, blockName) ==
    IF blockName \in DOMAIN counts
    THEN [counts EXCEPT ![blockName] = @ + 1]
    ELSE counts @@ (blockName :> 1)

\* the body of layer.forEach
CountIndex(counts, rawIndex, paletteNames) ==
    LET index == ToNumber(rawIndex)
    IN  IF HistogramSkipsIndex(index, Len(paletteNames)) THEN counts
        ELSE IF HistogramSkipsName(paletteNames[index.n + 1]) THEN counts
        ELSE Increment(counts, paletteNames[index.n + 1])

RECURSIVE CountLayer(_, _, _)
CountLayer(counts, items, paletteNames) ==
    IF items = <<>> THEN counts
    ELSE CountLayer(CountIndex(counts, Head(items), paletteNames), Tail(items), paletteNames)

\* the body of blockIndexLayers.forEach
RECURSIVE CountLayers(_, _, _)
CountLayers(counts, layers, paletteNames) ==
    IF layers = <<>> THEN counts
    ELSE LET layer == Head(layers)
             next == IF layer.t # "array" THEN counts
                     ELSE CountLayer(counts, layer.items, paletteNames)
         IN  CountLayers(next, Tail(layers), paletteNames)

BuildMaterialCounts(structureSection, palette) ==
    LET blockIndexLayers == IF structureSection.block_indices.t = "array"
                            THEN structureSection.block_indices.items ELSE <<>>
    IN  CountLayers(<<>>, blockIndexLayers, PaletteNames(palette))

(***************************************************************************)
(* buildBlocks                                                             *)
(***************************************************************************)
\* a canonical array index: Object.keys lists such keys first, ascending
IsArrayIndexKey(key) ==
    key # <<>> /\ AllDigits(key) /\ (Len(key) = 1 \/ key[1] # 48)

\* the positions 1..Len(keys) in the order in which Object.keys lists the keys:
\* array-index keys ascending by value, then the others in insertion order
RECURSIVE OrderPositions(_, _)
OrderPositions(keys, todo) ==
    IF todo = {} THEN <<>>
    ELSE LET idxKeys == {p \in todo : IsArrayIndexKey(keys[p])}
             first == IF idxKeys # {}
                      THEN CHOOSE p \in idxKeys :
                               \A q \in idxKeys :
                                   \/ DecValue(keys[p]) < DecValue(keys[q])
                                   \/ DecValue(keys[p]) = DecValue(keys[q]) /\ p <= q
                      ELSE CHOOSE p \in todo : \A q \in todo : p <= q
         IN  <<first>> \o OrderPositions(keys, todo \ {first})

ObjectKeys(keys) == OrderPositions(keys, DOMAIN keys)

\* a.y - b.y > 0, the comparator of the sort (a NaN difference counts as 0)
SortsAfter(a, b) == a.y.k = "fin" /\ b.y.k = "fin" /\ a.y.n > b.y.n

\* Array.prototype.sort is stable: rec goes behind every record that does not
\* sort after it
RECURSIVE InsertSorted(_, _)
InsertSorted(sorted, rec) ==
    IF sorted = <<>> THEN <<rec>>
    ELSE IF SortsAfter(Head(sorted), rec) THEN <<rec>> \o sorted
    ELSE <<Head(sorted)>> \o InsertSorted(Tail(sorted), rec)

RECURSIVE SortLayers(_)
SortLayers(layers) ==
    IF layers = <<>> THEN <<>>
    ELSE InsertSorted(SortLayers(SubSeq(layers, 1, Len(layers) - 1)), layers[Len(layers)])

\* Object.keys(blockIndices).map(k => ({ y: parseInt(k, 10), data })).sort(...)
KeyedLayers(blockIndices) ==
    LET order == ObjectKeys(blockIndices.keys)
    IN  SortLayers([i \in DOMAIN order |->
            [y |-> ParseInt(blockIndices.keys[order[i]]),
             data |-> blockIndices.items[order[i]]]])

\* blockIndices.map((layer, i) => ({ y: i, data: layer }))
IndexedLayers(blockIndices) ==
    [i \in DOMAIN blockIndices.items |-> [y |-> Fin(i - 1), data |-> blockIndices.items[i]]]

NormalizeLayers(blockIndices) ==
    IF blockIndices.t = "array" THEN IndexedLayers(blockIndices)
    ELSE IF blockIndices.t = "object" THEN KeyedLayers(blockIndices)
    ELSE <<>>

VoxelSkipsIndex(paletteIndex, paletteLength) ==
    \/ ~IsFinite(paletteIndex)
    \/ JsLt(paletteIndex, Fin(0))
    \/ JsGe(paletteIndex, Fin(paletteLength))

LayerLimit_NoTruncation(layer, areaXZ) == Fin(Len(layer.items))

\* Math.min(layer.length, areaXZ)
LayerLimit(layer, areaXZ) == JsMin(Fin(Len(layer.items)), areaXZ)

\* { x: idx % size.x, y, z: Math.floor(idx / size.x), paletteIndex }
VoxelAt(idx, y, paletteIndex, size) ==
    [x |-> JsRem(idx, size.x), y |-> y, z |-> JsFloorDiv(idx, size.x),
     paletteIndex |-> paletteIndex]

\* for (let idx = start; idx < limit; idx++) { ... }
RECURSIVE LayerVoxels(_, _, _, _, _, _)
LayerVoxels(idx, limit, y, layer, size, paletteLength) ==
    IF ~JsLt(Fin(idx), limit) THEN <<>>
    ELSE LET paletteIndex == ToNumber(At(layer.items, idx))
             rest == LayerVoxels(idx + 1, limit, y, layer, size, paletteLength)
         IN  IF VoxelSkipsIndex(paletteIndex, paletteLength) THEN rest
             ELSE <<VoxelAt(idx, y, paletteIndex, size)>> \o rest

\* for (const { y, data: layer } of layers) { ... }
RECURSIVE AllVoxels(_, _, _)
AllVoxels(layers, size, paletteLength) ==
    IF layers = <<>> THEN <<>>
    ELSE LET y == Head(layers).y
             layer == Head(layers).data
             areaXZ == JsMul(size.x, size.z)
             these == IF layer.t # "array" THEN <<>>
                      ELSE LayerVoxels(0, LayerLimit(layer, areaXZ), y, layer, size,
                                       paletteLength)
         IN  these \o AllVoxels(Tail(layers), size, paletteLength)

BuildBlocks(structureSection, size, paletteLength) ==
    LET blockIndices == IF IsNullish(structureSection.block_indices)
                        THEN BlockIndicesArray(<<>>)
                        ELSE structureSection.block_indices
    IN  AllVoxels(NormalizeLayers(blockIndices), size, paletteLength)

(***************************************************************************)
(* transformStructure: the returned model, or the TypeError it raises.     *)
(***************************************************************************)
NoSize == [x |-> Fin(0), y |-> Fin(0), z |-> Fin(0)]
Raised == [threw |-> TRUE, size |-> NoSize, palette |-> <<>>, materials |-> <<>>,
           blocks |-> <<>>]

TransformStructure(rootCompound) ==
    LET structureSection == IF IsNullish(rootCompound.structure) THEN EmptySection
                            ELSE rootCompound.structure
    IN  IF NormalizeSizeThrows(rootCompound.size) \/ BuildPaletteThrows(structureSection)
        THEN Raised
        ELSE LET size == NormalizeSize(rootCompound.size)
                 palette == BuildPalette(structureSection)
             IN  IF BuildMaterialCountsThrows(structureSection, palette) THEN Raised
                 ELSE [threw |-> FALSE,
                       size |-> size,
                       palette |-> palette,
                       materials |-> BuildMaterialCounts(structureSection, palette),
                       blocks |-> BuildBlocks(structureSection, size, Len(palette))]

(***************************************************************************)
(* isGzipCompressed and the error messages of parseMCStructureBinary       *)
(***************************************************************************)
GZIP_MAGIC_BYTES == <<31, 139>>

IsGzipCompressed_FirstByteOnly(buf) ==
    IF Len(buf) < 1 THEN FALSE
    ELSE buf[1] = GZIP_MAGIC_BYTES[1]

IsGzipCompressed(buf) ==
    IF Len(buf) < 2 THEN FALSE
    ELSE buf[1] = GZIP_MAGIC_BYTES[1] /\ buf[2] = GZIP_MAGIC_BYTES[2]

\* the kinds of Error, named by the fixed head of their message
PakoMissing == "Pako library (Gzip decompressor) is required but not loaded"
GzipError == "Gzip Decompression Error"
NbtError == "NBT Parsing Error"
TypeError == "TypeError"

\* the message of the TypeError raised by calling NBT.parse when it is no function
NotAFunction == "NBT.parse is not a function"

DecodeErrorDetail_FallbackFirst(e1, e2) == IF e2 # "" THEN e2 ELSE e1

\* ${e.message || e2.message}
DecodeErrorDetail(e1, e2) == IF e1 # "" THEN e1 ELSE e2

(***************************************************************************)
(* The enumerated inputs.                                                  *)
(***************************************************************************)
SeqsUpTo(S, n) == UNION {[1..m -> S] : m \in 0..n}

ByteValues == {0, GZIP_MAGIC_BYTES[1], GZIP_MAGIC_BYTES[2]}
Buffers == SeqsUpTo(ByteValues, MaxBufLen)
\* what inflate may return
InflateOutputs == {<<>>, <<0, 0>>}
\* the messages of the errors the collaborators raise ("" is an empty message)
Messages == {"", "m1", "m2"}

\* occupancy values: -1, 0, 1, an ordinal past every palette, Infinity, 1n, "x",
\* undefined
LayerValues ==
    {NumberVal(0 - 1), NumberVal(0), NumberVal(1), NumberVal(MaxPalette), InfVal,
     BigIntVal(1), StringVal(<<120>>), Undefined}
FullLayers ==
    {ArrayOf(items) : items \in SeqsUpTo(LayerValues, MaxLayerLen)} \cup {NoArray("object")}
SmallLayers ==
    {ArrayOf(<<NumberVal(0)>>), ArrayOf(<<NumberVal(1), NumberVal(0)>>), NoArray("object")}
\* the keys "0", "1", "01", "-1"
LayerKeys == {<<48>>, <<49>>, <<48, 49>>, <<45, 49>>}
KeySeqs == {ks \in SeqsUpTo(LayerKeys, MaxLayers) :
               ks # <<>> /\ \A i, j \in DOMAIN ks : i # j => ks[i] # ks[j]}
Mappings ==
    UNION {{BlockIndicesObject(ks, ls) : ls \in [DOMAIN ks -> SmallLayers]} : ks \in KeySeqs}

Dims == 0..MaxDim
SizeOf(x, y, z) == ArrayOf(<<NumberVal(x), NumberVal(y), NumberVal(z)>>)
AllSizes ==
    {SizeOf(x, y, z) : x \in Dims, y \in Dims, z \in Dims}
        \cup {NoArray("undefined")}

\* elements of a size list: 2, 1n, "x", "2", undefined
SizeValues ==
    {NumberVal(2), BigIntVal(1), StringVal(<<120>>), StringVal(<<50>>), Undefined}
SizeLists == {ArrayOf(items) : items \in SeqsUpTo(SizeValues, MaxSizeLen)}

StoneEntry == Entry(StringVal(StoneName), ObjectVal(<<1>>), NumberVal(1))
PaletteEntries ==
    {StoneEntry,
     Entry(StringVal(StoneNameUpper), Undefined, Undefined),
     Entry(StringVal(AirName), Undefined, Undefined),
     Entry(StringVal(AirNameUpper), Undefined, NumberVal(1)),
     Entry(StringVal(<<>>), Undefined, Undefined),
     Entry(Undefined, Undefined, Undefined),
     Entry(NumberVal(7), Undefined, Undefined),
     NullEntry}
StonePalettes == {ArrayOf([i \in 1..n |-> StoneEntry]) : n \in 0..MaxPalette}

Tree(size, palette, blockIndices) ==
    [size |-> size, structure |-> Section(palette, blockIndices)]

\* the trees the decoder returns in the runs of parseMCStructureBinary
PlainTree ==
    Tree(SizeOf(1, 1, 1), ArrayOf(<<StoneEntry>>), BlockIndicesArray(<<ArrayOf(<<NumberVal(0)>>)>>))
KeyedTree ==
    Tree(SizeOf(1, 1, 1), ArrayOf(<<StoneEntry>>),
         BlockIndicesObject(<<<<48>>>>, <<ArrayOf(<<NumberVal(0)>>)>>))
BareTree == [size |-> NoArray("undefined"), structure |-> AbsentSection]
DecoderTrees == {PlainTree, KeyedTree, BareTree}

(***************************************************************************)
(* One call of parseMCStructureBinary(buffer).                             *)
(***************************************************************************)
VARIABLES
    buffer,               \* the argument
    pako,                 \* globalThis.pako.inflate is a function
    nbt,                  \* NBT.parse is a function
    pc,                   \* where the call stands
    decompressedData,     \* the local of that name
    inflateCalls,         \* the calls of pako.inflate: [result, message]
    parseCalls,           \* the calls of NBT.parse: [form, bytes, result]
    e,                    \* message of the error caught by the outer catch
    e2,                   \* message of the error caught by the inner catch
    parsedStructureData,  \* the local of that name
    transformCalls,       \* number of calls of transformStructure
    outcome               \* the promise returned: [state, kind, detail, value]

\* the state of the other scenarios: repeated calls of transformStructure, two
\* calls of parseMCStructureBinary in flight together, and a
\* ResourcePackTextureManager
VARIABLES
    results,              \* what the successive calls of transformStructure gave
    calls,                \* the locals of each of two calls of parseMCStructureBinary
    sourceMode,           \* this.sourceMode
    zip,                  \* this.zip: 0 is null, n the archive of file n
    jszip,                \* the global JSZip is defined
    textureCache,         \* this.textureCache: cacheKey -> texture
    materialCache,        \* this.materialCache: key -> visual
    loads                 \* the calls of the manager's async methods in flight

callVars == <<buffer, pako, nbt, pc, decompressedData, inflateCalls, parseCalls, e, e2,
              parsedStructureData, transformCalls, outcome>>
repeatVars == <<results>>
pairVars == <<calls>>
managerVars == <<sourceMode, zip, jszip, textureCache, materialCache, loads>>

vars == <<callVars, repeatVars, pairVars, managerVars>>

\* no repeated call, no pair of calls, a manager as constructed
NoRepeat == results = <<>>
NoPair == calls = <<>>
NoManager ==
    /\ sourceMode = "static"
    /\ zip = 0
    /\ jszip = TRUE
    /\ textureCache = <<>>
    /\ materialCache = <<>>
    /\ loads = <<>>

NoValue == [threw |-> FALSE, size |-> NoSize, palette |-> <<>>, materials |-> <<>>,
            blocks |-> <<>>]
\* kind is the fixed head of the error's message, detail the messages it quotes
Pending == [state |-> "pending", kind |-> "", detail |-> <<>>, value |-> NoValue]
Rejected(kind, detail) ==
    [state |-> "rejected", kind |-> kind, detail |-> detail, value |-> NoValue]
Fulfilled(value) == [state |-> "fulfilled", kind |-> "", detail |-> <<>>, value |-> value]

Init ==
    /\ buffer \in Buffers
    /\ pako \in BOOLEAN
    /\ nbt \in BOOLEAN
    /\ pc = "gate"
    /\ decompressedData = <<>>
    /\ inflateCalls = <<>>
    /\ parseCalls = <<>>
    /\ e = ""
    /\ e2 = ""
    /\ parsedStructureData = BareTree
    /\ transformCalls = 0
    /\ outcome = Pending
    /\ NoRepeat /\ NoPair /\ NoManager

\* throw new Error(...)
Throw(kind, detail) ==
    /\ pc' = "failed"
    /\ outcome' = Rejected(kind, detail)

\* looksGzipped, and pako or pako.inflate is missing
GateMissingPako ==
    /\ pc = "gate"
    /\ IsGzipCompressed(buffer)
    /\ ~pako
    /\ Throw(PakoMissing, <<>>)
    /\ UNCHANGED <<buffer, pako, nbt, decompressedData, inflateCalls, parseCalls, e, e2,
                   parsedStructureData, transformCalls>>
    /\ UNCHANGED <<repeatVars, pairVars, managerVars>>

\* looksGzipped, and pako.inflate returns
InflateReturns ==
    /\ pc = "gate"
    /\ IsGzipCompressed(buffer)
    /\ pako
    /\ \E out \in InflateOutputs : decompressedData' = out
    /\ inflateCalls' = Append(inflateCalls, [result |-> "returned", message |-> ""])
    /\ pc' = "parse"
    /\ UNCHANGED <<buffer, pako, nbt, parseCalls, e, e2, parsedStructureData,
                   transformCalls, outcome>>
    /\ UNCHANGED <<repeatVars, pairVars, managerVars>>

InflateThrows_Swallowed ==
    /\ pc = "gate"
    /\ IsGzipCompressed(buffer)
    /\ pako
    /\ \E m \in Messages :
          inflateCalls' = Append(inflateCalls, [result |-> "threw", message |-> m])
    /\ decompressedData' = buffer
    /\ pc' = "parse"
    /\ UNCHANGED <<buffer, pako, nbt, parseCalls, e, e2, parsedStructureData,
                   transformCalls, outcome>>
    /\ UNCHANGED <<repeatVars, pairVars, managerVars>>

\* looksGzipped, and pako.inflate throws:
\* throw new Error(`Gzip Decompression Error: ... (${e.message})`)
InflateThrows ==
    /\ pc = "gate"
    /\ IsGzipCompressed(buffer)
    /\ pako
    /\ \E m \in Messages :
          /\ inflateCalls' = Append(inflateCalls, [result |-> "threw", message |-> m])
          /\ Throw(GzipError, <<m>>)
    /\ UNCHANGED <<buffer, pako, nbt, decompressedData, parseCalls, e, e2,
                   parsedStructureData, transformCalls>>
    /\ UNCHANGED <<repeatVars, pairVars, managerVars>>

\* not looksGzipped: decompressedData = new Uint8Array(buffer)
PassThrough ==
    /\ pc = "gate"
    /\ ~IsGzipCompressed(buffer)
    /\ decompressedData' = buffer
    /\ pc' = "parse"
    /\ UNCHANGED <<buffer, pako, nbt, inflateCalls, parseCalls, e, e2,
                   parsedStructureData, transformCalls, outcome>>
    /\ UNCHANGED <<repeatVars, pairVars, managerVars>>

\* NBT.parse(decompressedData) when NBT.parse is no function: a TypeError, caught
PrimaryNotCallable ==
    /\ pc = "parse"
    /\ ~nbt
    /\ e' = NotAFunction
    /\ pc' = "fallback"
    /\ UNCHANGED <<buffer, pako, nbt, decompressedData, inflateCalls, parseCalls, e2,
                   parsedStructureData, transformCalls, outcome>>
    /\ UNCHANGED <<repeatVars, pairVars, managerVars>>

\* NBT.parse(decompressedData), with what it does
PrimaryCall(result) ==
    Append(parseCalls, [form |-> "view", bytes |-> decompressedData, result |-> result])

\* the promise of the last call is settled
Settled(result) == [parseCalls EXCEPT ![Len(parseCalls)].result = result]

PrimaryReturns_ThenFallback ==
    /\ pc = "parse"
    /\ nbt
    /\ parseCalls' = PrimaryCall("returned")
    /\ \E tree \in DecoderTrees : parsedStructureData' = tree
    /\ pc' = "fallback"
    /\ UNCHANGED <<buffer, pako, nbt, decompressedData, inflateCalls, e, e2,
                   transformCalls, outcome>>
    /\ UNCHANGED <<repeatVars, pairVars, managerVars>>

\* NBT.parse(decompressedData) returns a tree
PrimaryReturns ==
    /\ pc = "parse"
    /\ nbt
    /\ parseCalls' = PrimaryCall("returned")
    /\ \E tree \in DecoderTrees : parsedStructureData' = tree
    /\ pc' = "transform"
    /\ UNCHANGED <<buffer, pako, nbt, decompressedData, inflateCalls, e, e2,
                   transformCalls, outcome>>
    /\ UNCHANGED <<repeatVars, pairVars, managerVars>>

\* NBT.parse(decompressedData) throws
PrimaryThrows ==
    /\ pc = "parse"
    /\ nbt
    /\ parseCalls' = PrimaryCall("threw")
    /\ \E m \in Messages : e' = m
    /\ pc' = "fallback"
    /\ UNCHANGED <<buffer, pako, nbt, decompressedData, inflateCalls, e2,
                   parsedStructureData, transformCalls, outcome>>
    /\ UNCHANGED <<repeatVars, pairVars, managerVars>>

\* NBT.parse(decompressedData) returns a promise: await maybe
PrimaryAwaits ==
    /\ pc = "parse"
    /\ nbt
    /\ parseCalls' = PrimaryCall("pending")
    /\ pc' = "await"
    /\ UNCHANGED <<buffer, pako, nbt, decompressedData, inflateCalls, e, e2,
                   parsedStructureData, transformCalls, outcome>>
    /\ UNCHANGED <<repeatVars, pairVars, managerVars>>

\* the awaited promise is fulfilled
PrimaryResolves ==
    /\ pc = "await"
    /\ parseCalls' = Settled("fulfilled")
    /\ \E tree \in DecoderTrees : parsedStructureData' = tree
    /\ pc' = "transform"
    /\ UNCHANGED <<buffer, pako, nbt, decompressedData, inflateCalls, e, e2,
                   transformCalls, outcome>>
    /\ UNCHANGED <<repeatVars, pairVars, managerVars>>

\* the awaited promise is rejected: the await throws inside the try
PrimaryRejects ==
    /\ pc = "await"
    /\ parseCalls' = Settled("rejected")
    /\ \E m \in Messages : e' = m
    /\ pc' = "fallback"
    /\ UNCHANGED <<buffer, pako, nbt, decompressedData, inflateCalls, e2,
                   parsedStructureData, transformCalls, outcome>>
    /\ UNCHANGED <<repeatVars, pairVars, managerVars>>

\* catch (e2): throw new Error(`NBT Parsing Error: ... (${e.message || e2.message})`)
ThrowDecodeError(m) ==
    /\ e2' = m
    /\ Throw(NbtError, <<DecodeErrorDetail(e, m)>>)

\* NBT.parse(altInput) when NBT.parse is no function
FallbackNotCallable ==
    /\ pc = "fallback"
    /\ ~nbt
    /\ ThrowDecodeError(NotAFunction)
    /\ UNCHANGED <<buffer, pako, nbt, decompressedData, inflateCalls, parseCalls, e,
                   parsedStructureData, transformCalls>>
    /\ UNCHANGED <<repeatVars, pairVars, managerVars>>

\* NBT.parse(altInput), altInput = decompressedData.buffer, with what it does
FallbackCall(result) ==
    Append(parseCalls, [form |-> "buffer", bytes |-> decompressedData, result |-> result])

\* NBT.parse(altInput) returns a tree
FallbackReturns ==
    /\ pc = "fallback"
    /\ nbt
    /\ parseCalls' = FallbackCall("returned")
    /\ \E tree \in DecoderTrees : parsedStructureData' = tree
    /\ pc' = "transform"
    /\ UNCHANGED <<buffer, pako, nbt, decompressedData, inflateCalls, e, e2,
                   transformCalls, outcome>>
    /\ UNCHANGED <<repeatVars, pairVars, managerVars>>

\* NBT.parse(altInput) throws
FallbackThrows ==
    /\ pc = "fallback"
    /\ nbt
    /\ parseCalls' = FallbackCall("threw")
    /\ \E m \in Messages : ThrowDecodeError(m)
    /\ UNCHANGED <<buffer, pako, nbt, decompressedData, inflateCalls, e,
                   parsedStructureData, transformCalls>>
    /\ UNCHANGED <<repeatVars, pairVars, managerVars>>

\* NBT.parse(altInput) returns a promise: await maybeAlt
FallbackAwaits ==
    /\ pc = "fallback"
    /\ nbt
    /\ parseCalls' = FallbackCall("pending")
    /\ pc' = "awaitAlt"
    /\ UNCHANGED <<buffer, pako, nbt, decompressedData, inflateCalls, e, e2,
                   parsedStructureData, transformCalls, outcome>>
    /\ UNCHANGED <<repeatVars, pairVars, managerVars>>

\* the awaited promise is fulfilled
FallbackResolves ==
    /\ pc = "awaitAlt"
    /\ parseCalls' = Settled("fulfilled")
    /\ \E tree \in DecoderTrees : parsedStructureData' = tree
    /\ pc' = "transform"
    /\ UNCHANGED <<buffer, pako, nbt, decompressedData, inflateCalls, e, e2,
                   transformCalls, outcome>>
    /\ UNCHANGED <<repeatVars, pairVars, managerVars>>

\* the awaited promise is rejected
FallbackRejects ==
    /\ pc = "awaitAlt"
    /\ parseCalls' = Settled("rejected")
    /\ \E m \in Messages : ThrowDecodeError(m)
    /\ UNCHANGED <<buffer, pako, nbt, decompressedData, inflateCalls, e,
                   parsedStructureData, transformCalls>>
    /\ UNCHANGED <<repeatVars, pairVars, managerVars>>

\* const transformed = transformStructure(parsedStructureData); return transformed
\* (a TypeError raised by the transform rejects the promise)
Transform ==
    /\ pc = "transform"
    /\ transformCalls' = transformCalls + 1
    /\ LET transformed == TransformStructure(parsedStructureData)
       IN  IF transformed.threw
           THEN Throw(TypeError, <<>>)
           ELSE /\ pc' = "done"
                /\ outcome' = Fulfilled(transformed)
    /\ UNCHANGED <<buffer, pako, nbt, decompressedData, inflateCalls, parseCalls, e, e2,
                   parsedStructureData>>
    /\ UNCHANGED <<repeatVars, pairVars, managerVars>>

Next ==
    \/ GateMissingPako
    \/ InflateReturns
    \/ InflateThrows
    \/ PassThrough
    \/ PrimaryNotCallable
    \/ PrimaryReturns
    \/ PrimaryThrows
    \/ PrimaryAwaits
    \/ PrimaryResolves
    \/ PrimaryRejects
    \/ FallbackNotCallable
    \/ FallbackReturns
    \/ FallbackThrows
    \/ FallbackAwaits
    \/ FallbackResolves
    \/ FallbackRejects
    \/ Transform

Spec == Init /\ [][Next]_vars

(***************************************************************************)
(* transformStructure on every enumerated tree: the call stands where the  *)
(* decoder has returned the tree on its first attempt.                     *)
(***************************************************************************)
\* one layer of every content, in every grid
CoordinateTree ==
    \E sz \in AllSizes, p \in StonePalettes, l \in FullLayers :
        parsedStructureData = Tree(sz, p, BlockIndicesArray(<<l>>))

\* stacks of layers, in every grid
LayerStackTree ==
    \E sz \in AllSizes, p \in StonePalettes, ls \in SeqsUpTo(SmallLayers, MaxLayers) :
        parsedStructureData = Tree(sz, p, BlockIndicesArray(ls))

\* every palette
PaletteTree ==
    \E es \in SeqsUpTo(PaletteEntries, MaxPalette), ls \in SeqsUpTo(SmallLayers, MaxLayers) :
        parsedStructureData = Tree(SizeOf(2, 1, 1), ArrayOf(es), BlockIndicesArray(ls))

\* block_indices keyed by layer index, in every insertion order of the keys
KeyedLayersTree ==
    \E p \in StonePalettes, b \in Mappings :
        parsedStructureData = Tree(SizeOf(1, 2, 1), p, b)

\* the other shapes of the fields: block_indices absent, an empty mapping or a
\* number; a palette that is absent or no sequence; no structure section
ShapeTree ==
    \/ \E p \in StonePalettes,
          b \in {BlockIndicesAbsent, BlockIndicesObject(<<>>, <<>>),
                 [BlockIndicesAbsent EXCEPT !.t = "number"]} :
            parsedStructureData = Tree(SizeOf(1, 2, 1), p, b)
    \/ \E t \in {"undefined", "object"}, l \in SmallLayers :
            parsedStructureData = Tree(SizeOf(1, 1, 1), NoArray(t), BlockIndicesArray(<<l>>))
    \/ \E sz \in AllSizes :
            parsedStructureData = [size |-> sz, structure |-> AbsentSection]

\* every size list, of up to MaxSizeLen elements of every kind
SizeTree ==
    \E sz \in SizeLists :
        parsedStructureData =
            Tree(sz, ArrayOf(<<StoneEntry>>),
                 BlockIndicesArray(<<ArrayOf(<<NumberVal(0), NumberVal(0)>>)>>))

InitTransform ==
    /\ buffer = <<>>
    /\ pako = TRUE
    /\ nbt = TRUE
    /\ pc = "transform"
    /\ decompressedData = <<>>
    /\ inflateCalls = <<>>
    /\ parseCalls = <<[form |-> "view", bytes |-> <<>>, result |-> "returned"]>>
    /\ e = ""
    /\ e2 = ""
    /\ \/ KeyedLayersTree \/ LayerStackTree \/ CoordinateTree \/ PaletteTree
       \/ ShapeTree \/ SizeTree
    /\ transformCalls = 0
    /\ outcome = Pending
    /\ NoRepeat /\ NoPair /\ NoManager

NextTransform == Transform

SpecTransform == InitTransform /\ [][NextTransform]_vars

(***************************************************************************)
(* transformStructure called again and again on one decoded tree that the  *)
(* caller keeps.                                                           *)
(***************************************************************************)
RootCompoundAfter_LayersReversed(rootCompound) ==
    IF rootCompound.structure.t = "object"
    THEN [rootCompound EXCEPT !.structure.block_indices.items =
                                  [i \in DOMAIN @ |-> @[Len(@) + 1 - i]]]
    ELSE rootCompound

\* the tree once transformStructure has run: no statement of transformStructure
\* or of its helpers assigns to the tree or calls a mutating method on a part
\* of it (.map and .forEach read; .sort and .push act on arrays built there)
RootCompoundAfter(rootCompound) == rootCompound

InitRepeat ==
    /\ buffer = <<>>
    /\ pako = TRUE
    /\ nbt = TRUE
    /\ pc = "done"
    /\ decompressedData = <<>>
    /\ inflateCalls = <<>>
    /\ parseCalls = <<>>
    /\ e = ""
    /\ e2 = ""
    /\ \/ KeyedLayersTree \/ LayerStackTree \/ CoordinateTree \/ PaletteTree
       \/ ShapeTree \/ SizeTree
    /\ transformCalls = 0
    /\ outcome = Pending
    /\ NoRepeat /\ NoPair /\ NoManager

\* transformStructure(rootCompound), on the tree as the call before left it
Invoke ==
    /\ Len(results) < MaxRepeats
    /\ results' = Append(results, [given |-> parsedStructureData,
                                   transformed |-> TransformStructure(parsedStructureData),
                                   left |-> RootCompoundAfter(parsedStructureData)])
    /\ parsedStructureData' = RootCompoundAfter(parsedStructureData)
    /\ UNCHANGED <<buffer, pako, nbt, pc, decompressedData, inflateCalls, parseCalls, e, e2,
                   transformCalls, outcome>>
    /\ UNCHANGED <<pairVars, managerVars>>

NextRepeat == Invoke

SpecRepeat == InitRepeat /\ [][NextRepeat]_vars

(***************************************************************************)
(* Two calls of parseMCStructureBinary in flight together.  calls[c] holds *)
(* the locals of call c; pako and nbt are the globals both calls read.  A  *)
(* call runs without interruption until it awaits a promise of the decoder *)
(* or settles, and goes on when the awaited promise is settled.            *)
(***************************************************************************)
Callers == 1..2
\* the arguments of the two calls
PairBuffers == {<<0>>, <<31, 139>>}

\* the locals of a call that has not begun
Locals(buf) ==
    [buffer |-> buf, pc |-> "gate", decompressedData |-> <<>>, inflateCalls |-> <<>>,
     parseCalls |-> <<>>, e |-> "", e2 |-> "", parsedStructureData |-> BareTree,
     outcome |-> Pending]

Thrown(l, kind, detail) == [l EXCEPT !.pc = "failed", !.outcome = Rejected(kind, detail)]

\* lines 25-46: the gate, inflate or the pass-through
GateSteps(l) ==
    IF ~IsGzipCompressed(l.buffer)
    THEN {[l EXCEPT !.decompressedData = l.buffer, !.pc = "parse"]}
    ELSE IF ~pako THEN {Thrown(l, PakoMissing, <<>>)}
    ELSE {[l EXCEPT !.decompressedData = out, !.pc = "parse",
                    !.inflateCalls = Append(@, [result |-> "returned", output |-> out,
                                                message |-> ""])] :
              out \in InflateOutputs}
         \cup
         {Thrown([l EXCEPT !.inflateCalls = Append(@, [result |-> "threw", output |-> <<>>,
                                                       message |-> m])],
                 GzipError, <<m>>) : m \in Messages}

\* a call of NBT.parse and what it does
DecoderCall(form, bytes, result, reply, message) ==
    [form |-> form, bytes |-> bytes, result |-> result, reply |-> reply,
     message |-> message]

\* lines 49-57: NBT.parse(decompressedData)
PrimarySteps(l) ==
    IF ~nbt THEN {[l EXCEPT !.e = NotAFunction, !.pc = "fallback"]}
    ELSE {[l EXCEPT !.parseCalls = Append(@, DecoderCall("view", l.decompressedData,
                                                        "returned", tree, "")),
                    !.parsedStructureData = tree, !.pc = "transform"] :
              tree \in DecoderTrees}
         \cup
         {[l EXCEPT !.parseCalls = Append(@, DecoderCall("view", l.decompressedData,
                                                        "threw", BareTree, m)),
                    !.e = m, !.pc = "fallback"] : m \in Messages}
         \cup
         {[l EXCEPT !.parseCalls = Append(@, DecoderCall("view", l.decompressedData,
                                                        "pending", BareTree, "")),
                    !.pc = "await"]}

\* catch (e2): throw new Error(`NBT Parsing Error: ... (${e.message || e2.message})`)
DecodeErrorThrown(l, m) ==
    Thrown([l EXCEPT !.e2 = m], NbtError, <<DecodeErrorDetail(l.e, m)>>)

AltInput_OfLatestCall(c, l) ==
    IF \E d \in Callers \ {c} : calls[d].pc # "gate"
    THEN calls[CHOOSE d \in Callers \ {c} : calls[d].pc # "gate"].decompressedData
    ELSE l.decompressedData

\* altInput: the buffer under the call's own decompressedData
AltInput(c, l) == l.decompressedData

\* lines 59-70: NBT.parse(altInput)
FallbackSteps(c, l) ==
    IF ~nbt THEN {DecodeErrorThrown(l, NotAFunction)}
    ELSE {[l EXCEPT !.parseCalls = Append(@, DecoderCall("buffer", AltInput(c, l),
                                                        "returned", tree, "")),
                    !.parsedStructureData = tree, !.pc = "transform"] :
              tree \in DecoderTrees}
         \cup
         {DecodeErrorThrown(
              [l EXCEPT !.parseCalls = Append(@, DecoderCall("buffer", AltInput(c, l),
                                                            "threw", BareTree, m))], m) :
              m \in Messages}
         \cup
         {[l EXCEPT !.parseCalls = Append(@, DecoderCall("buffer", AltInput(c, l),
                                                        "pending", BareTree, "")),
                    !.pc = "awaitAlt"]}

\* lines 90-95: transformStructure(parsedStructureData) and the return
TransformSteps(l) ==
    LET transformed == TransformStructure(l.parsedStructureData)
    IN  IF transformed.threw THEN {Thrown(l, TypeError, <<>>)}
        ELSE {[l EXCEPT !.pc = "done", !.outcome = Fulfilled(transformed)]}

\* the last call of the decoder, its promise settled
SettledCall(l, result, reply, message) ==
    [l.parseCalls EXCEPT ![Len(l.parseCalls)] =
        [@ EXCEPT !.result = result, !.reply = reply, !.message = message]]

\* the awaited promise is settled: the await gives the tree or throws
SettleSteps(l) ==
    {[l EXCEPT !.parseCalls = SettledCall(l, "fulfilled", tree, ""),
               !.parsedStructureData = tree, !.pc = "transform"] : tree \in DecoderTrees}
    \cup
    (IF l.pc = "await"
     THEN {[l EXCEPT !.parseCalls = SettledCall(l, "rejected", BareTree, m),
                     !.e = m, !.pc = "fallback"] : m \in Messages}
     ELSE {DecodeErrorThrown([l EXCEPT !.parseCalls = SettledCall(l, "rejected", BareTree, m)],
                             m) : m \in Messages})

Suspended(l) == l.pc \in {"await", "awaitAlt"}
Over(l) == l.pc \in {"done", "failed"}

\* where call c, its locals being l, stands when it next awaits or settles
RECURSIVE RunOn(_, _)
RunOn(c, l) ==
    IF Suspended(l) \/ Over(l) THEN {l}
    ELSE UNION {RunOn(c, n) : n \in CASE l.pc = "gate" -> GateSteps(l)
                                      [] l.pc = "parse" -> PrimarySteps(l)
                                      [] l.pc = "fallback" -> FallbackSteps(c, l)
                                      [] l.pc = "transform" -> TransformSteps(l)}

InitPair ==
    /\ buffer = <<>>
    /\ pako \in BOOLEAN
    /\ nbt \in BOOLEAN
    /\ pc = "done"
    /\ decompressedData = <<>>
    /\ inflateCalls = <<>>
    /\ parseCalls = <<>>
    /\ e = ""
    /\ e2 = ""
    /\ parsedStructureData = BareTree
    /\ transformCalls = 0
    /\ outcome = Pending
    /\ \E b \in [Callers -> PairBuffers] : calls = [c \in Callers |-> Locals(b[c])]
    /\ NoRepeat /\ NoManager

\* parseMCStructureBinary(buffer) is called and runs to its first await or to its end
Begin(c) ==
    /\ calls[c].pc = "gate"
    /\ \E l \in RunOn(c, calls[c]) : calls' = [calls EXCEPT ![c] = l]
    /\ UNCHANGED <<callVars, repeatVars, managerVars>>

\* the promise call c awaits is settled and the call runs on
Resume(c) ==
    /\ Suspended(calls[c])
    /\ \E r \in SettleSteps(calls[c]) :
          \E l \in RunOn(c, r) : calls' = [calls EXCEPT ![c] = l]
    /\ UNCHANGED <<callVars, repeatVars, managerVars>>

NextPair ==
    \/ \E c \in Callers : Begin(c)
    \/ \E c \in Callers : Resume(c)

SpecPair == InitPair /\ [][NextPair]_vars

(***************************************************************************)
(* ResourcePackTextureManager: the source (static files or a zip archive), *)
(* the texture and material caches, and the calls of loadTextureAsset,     *)
(* getBlockVisual and setZipFile in flight.  A texture is known by the     *)
(* source it was read from; loads[i].pc tells at which await call i stands.*)
(***************************************************************************)
TextureIds == {"stone", "missing"}
BlockKeys == {"block"}
\* the texture id of the faces of a block, as normalizeEntryFaces gives it
FaceTexture(key) == "stone"

\* where loadTextureCandidate reads from now: 0 the static base path, n the zip
CurrentSource == IF sourceMode = "zip" THEN zip ELSE 0

Texture(origin) == [origin |-> origin]
\* new THREE.Texture(), read from no source
BlankTexture == Texture(0 - 1)

\* a call in flight: key is its cache key, id the texture id it loads, file the
\* argument of setZipFile
ManagerCall(method, key, id, file, at, texture) ==
    [method |-> method, key |-> key, id |-> id, file |-> file, pc |-> at,
     texture |-> texture]

InitManager ==
    /\ buffer = <<>>
    /\ pako = TRUE
    /\ nbt = TRUE
    /\ pc = "done"
    /\ decompressedData = <<>>
    /\ inflateCalls = <<>>
    /\ parseCalls = <<>>
    /\ e = ""
    /\ e2 = ""
    /\ parsedStructureData = BareTree
    /\ transformCalls = 0
    /\ outcome = Pending
    /\ NoRepeat /\ NoPair
    /\ sourceMode = "static"
    /\ zip = 0
    /\ jszip \in BOOLEAN
    /\ textureCache = <<>>
    /\ materialCache = <<>>
    /\ loads = <<>>

\* this.textureCache.clear(); this.materialCache.clear() of resetCaches(true)
ResetCaches ==
    /\ textureCache' = <<>>
    /\ materialCache' = <<>>

\* textureCache.set(cacheKey, texture)
CacheSet(cache, key, value) == [k \in DOMAIN cache \cup {key} |->
                                   IF k = key THEN value ELSE cache[k]]

\* where a call goes once its texture is in hand: loadTextureAsset returns,
\* getBlockVisual builds its materials
AfterTexture(call) == IF call.method = "getBlockVisual" THEN "assemble" ELSE "returned"

\* loadTextureAsset(textureId): a cached texture is returned, or the call awaits
\* getTextureRecord
LoadTextureAsset(id) ==
    /\ Len(loads) < MaxManagerCalls
    /\ loads' = Append(loads,
                       IF id \in DOMAIN textureCache
                       THEN ManagerCall("loadTextureAsset", id, id, 0, "returned", textureCache[id])
                       ELSE ManagerCall("loadTextureAsset", id, id, 0, "record", BlankTexture))
    /\ UNCHANGED <<sourceMode, zip, jszip, textureCache, materialCache>>
    /\ UNCHANGED <<callVars, repeatVars, pairVars>>

\* getBlockVisual(entry): a cached visual is returned, or the call awaits
\* getBlockDefinition
GetBlockVisual(key) ==
    /\ Len(loads) < MaxManagerCalls
    /\ loads' = Append(loads,
                       IF key \in DOMAIN materialCache
                       THEN ManagerCall("getBlockVisual", key, FaceTexture(key), 0, "returned",
                                        materialCache[key])
                       ELSE ManagerCall("getBlockVisual", key, FaceTexture(key), 0, "definition",
                                        BlankTexture))
    /\ UNCHANGED <<sourceMode, zip, jszip, textureCache, materialCache>>
    /\ UNCHANGED <<callVars, repeatVars, pairVars>>

\* getBlockDefinition is settled: loadTextureAsset(faceMap[face]) is called
DefinitionRead(i) ==
    /\ i \in DOMAIN loads
    /\ loads[i].pc = "definition"
    /\ loads' = [loads EXCEPT ![i] =
                    IF loads[i].id \in DOMAIN textureCache
                    THEN [@ EXCEPT !.pc = "assemble",
                                   !.texture = textureCache[loads[i].id]]
                    ELSE [@ EXCEPT !.pc = "record"]]
    /\ UNCHANGED <<sourceMode, zip, jszip, textureCache, materialCache>>
    /\ UNCHANGED <<callVars, repeatVars, pairVars>>

\* getTextureRecord is settled: loadTextureByPath starts reading from the
\* source of the moment
RecordRead(i) ==
    /\ i \in DOMAIN loads
    /\ loads[i].pc = "record"
    /\ loads' = [loads EXCEPT ![i] = [@ EXCEPT !.pc = "loading",
                                               !.texture = Texture(CurrentSource)]]
    /\ UNCHANGED <<sourceMode, zip, jszip, textureCache, materialCache>>
    /\ UNCHANGED <<callVars, repeatVars, pairVars>>

\* loadTextureByPath gave a texture: this.textureCache.set(cacheKey, texture)
TextureLoaded(i) ==
    /\ i \in DOMAIN loads
    /\ loads[i].pc = "loading"
    /\ textureCache' = CacheSet(textureCache, loads[i].id, loads[i].texture)
    /\ loads' = [loads EXCEPT ![i] = [@ EXCEPT !.pc = AfterTexture(loads[i])]]
    /\ UNCHANGED <<sourceMode, zip, jszip, materialCache>>
    /\ UNCHANGED <<callVars, repeatVars, pairVars>>

\* loadTextureByPath gave nothing: 'missing' itself gets a new THREE.Texture();
\* another id gets what loadTextureAsset('missing') returns, at once when
\* 'missing' is cached
TextureNotFound(i) ==
    /\ i \in DOMAIN loads
    /\ loads[i].pc = "loading"
    /\ IF loads[i].id = "missing"
       THEN /\ textureCache' = CacheSet(textureCache, "missing", BlankTexture)
            /\ loads' = [loads EXCEPT ![i] = [@ EXCEPT !.pc = AfterTexture(loads[i]),
                                                       !.texture = BlankTexture]]
       ELSE IF "missing" \in DOMAIN textureCache
       THEN /\ textureCache' = CacheSet(textureCache, loads[i].id, textureCache["missing"])
            /\ loads' = [loads EXCEPT ![i] = [@ EXCEPT !.pc = AfterTexture(loads[i]),
                                                       !.texture = textureCache["missing"]]]
       ELSE /\ textureCache' = textureCache
            /\ loads' = [loads EXCEPT ![i] = [@ EXCEPT !.pc = "missingRecord"]]
    /\ UNCHANGED <<sourceMode, zip, jszip, materialCache>>
    /\ UNCHANGED <<callVars, repeatVars, pairVars>>

\* inside loadTextureAsset('missing'): getTextureRecord is settled
MissingRecordRead(i) ==
    /\ i \in DOMAIN loads
    /\ loads[i].pc = "missingRecord"
    /\ loads' = [loads EXCEPT ![i] = [@ EXCEPT !.pc = "missingLoading",
                                               !.texture = Texture(CurrentSource)]]
    /\ UNCHANGED <<sourceMode, zip, jszip, textureCache, materialCache>>
    /\ UNCHANGED <<callVars, repeatVars, pairVars>>

\* loadTextureAsset('missing') caches and returns its texture, read or new, and
\* the caller caches it under its own key
MissingLoaded(i) ==
    /\ i \in DOMAIN loads
    /\ loads[i].pc = "missingLoading"
    /\ \E texture \in {loads[i].texture, BlankTexture} :
          /\ textureCache' = CacheSet(CacheSet(textureCache, "missing", texture),
                                      loads[i].id, texture)
          /\ loads' = [loads EXCEPT ![i] = [@ EXCEPT !.pc = AfterTexture(loads[i]),
                                                     !.texture = texture]]
    /\ UNCHANGED <<sourceMode, zip, jszip, materialCache>>
    /\ UNCHANGED <<callVars, repeatVars, pairVars>>

\* the textures of getBlockVisual are in hand: this.materialCache.set(key, visual)
VisualAssembled(i) ==
    /\ i \in DOMAIN loads
    /\ loads[i].pc = "assemble"
    /\ materialCache' = CacheSet(materialCache, loads[i].key, loads[i].texture)
    /\ loads' = [loads EXCEPT ![i] = [@ EXCEPT !.pc = "returned"]]
    /\ UNCHANGED <<sourceMode, zip, jszip, textureCache>>
    /\ UNCHANGED <<callVars, repeatVars, pairVars>>

\* setZipFile(file) without JSZip throws
SetZipFileNoJSZip(file) ==
    /\ Len(loads) < MaxManagerCalls
    /\ ~jszip
    /\ loads' = Append(loads, ManagerCall("setZipFile", "", "", file, "failed", BlankTexture))
    /\ UNCHANGED <<sourceMode, zip, jszip, textureCache, materialCache>>
    /\ UNCHANGED <<callVars, repeatVars, pairVars>>

\* setZipFile(file): await JSZip.loadAsync(file)
SetZipFile(file) ==
    /\ Len(loads) < MaxManagerCalls
    /\ jszip
    /\ loads' = Append(loads, ManagerCall("setZipFile", "", "", file, "loadAsync", BlankTexture))
    /\ UNCHANGED <<sourceMode, zip, jszip, textureCache, materialCache>>
    /\ UNCHANGED <<callVars, repeatVars, pairVars>>

\* JSZip.loadAsync is settled: the source is switched and the caches are reset
ZipLoaded(i) ==
    /\ i \in DOMAIN loads
    /\ loads[i].pc = "loadAsync"
    /\ zip' = loads[i].file
    /\ sourceMode' = "zip"
    /\ ResetCaches
    /\ loads' = [loads EXCEPT ![i] = [@ EXCEPT !.pc = "returned"]]
    /\ UNCHANGED jszip
    /\ UNCHANGED <<callVars, repeatVars, pairVars>>

\* clearZipSource()
ClearZipSource ==
    /\ zip' = 0
    /\ sourceMode' = "static"
    /\ ResetCaches
    /\ UNCHANGED <<jszip, loads>>
    /\ UNCHANGED <<callVars, repeatVars, pairVars>>

NextManager ==
    \/ \E id \in TextureIds : LoadTextureAsset(id)
    \/ \E key \in BlockKeys : GetBlockVisual(key)
    \/ \E i \in 1..MaxManagerCalls : DefinitionRead(i)
    \/ \E i \in 1..MaxManagerCalls : RecordRead(i)
    \/ \E i \in 1..MaxManagerCalls : TextureLoaded(i)
    \/ \E i \in 1..MaxManagerCalls : TextureNotFound(i)
    \/ \E i \in 1..MaxManagerCalls : MissingRecordRead(i)
    \/ \E i \in 1..MaxManagerCalls : MissingLoaded(i)
    \/ \E i \in 1..MaxManagerCalls : VisualAssembled(i)
    \/ \E file \in 1..MaxZips : SetZipFileNoJSZip(file)
    \/ \E file \in 1..MaxZips : SetZipFile(file)
    \/ \E i \in 1..MaxManagerCalls : ZipLoaded(i)
    \/ ClearZipSource

SpecManager == InitManager /\ [][NextManager]_vars

(***************************************************************************)
(* The parseMCStructureBinary of src/unnamed/part_000: both primitives are *)
(* checked first, inflate runs on every buffer, the decoder is called once *)
(* with the underlying buffer and its tree is returned as it is.           *)
(***************************************************************************)
NbtMissing == "NBT parser library (nbt.min.js) is required but not loaded"

\* typeof pako === 'undefined' || !pako.inflate
LegacyMissingPako ==
    /\ pc = "gate"
    /\ ~pako
    /\ Throw(PakoMissing, <<>>)
    /\ UNCHANGED <<buffer, pako, nbt, decompressedData, inflateCalls, parseCalls, e, e2,
                   parsedStructureData, transformCalls>>
    /\ UNCHANGED <<repeatVars, pairVars, managerVars>>

\* typeof NBT === 'undefined' || !NBT.parse
LegacyMissingNbt ==
    /\ pc = "gate"
    /\ pako
    /\ ~nbt
    /\ Throw(NbtMissing, <<>>)
    /\ UNCHANGED <<buffer, pako, nbt, decompressedData, inflateCalls, parseCalls, e, e2,
                   parsedStructureData, transformCalls>>
    /\ UNCHANGED <<repeatVars, pairVars, managerVars>>

\* pako.inflate(compressedData) returns
LegacyInflateReturns ==
    /\ pc = "gate"
    /\ pako
    /\ nbt
    /\ \E out \in InflateOutputs : decompressedData' = out
    /\ inflateCalls' = Append(inflateCalls, [result |-> "returned", message |-> ""])
    /\ pc' = "parse"
    /\ UNCHANGED <<buffer, pako, nbt, parseCalls, e, e2, parsedStructureData,
                   transformCalls, outcome>>
    /\ UNCHANGED <<repeatVars, pairVars, managerVars>>

\* pako.inflate(compressedData) throws
LegacyInflateThrows ==
    /\ pc = "gate"
    /\ pako
    /\ nbt
    /\ \E m \in Messages :
          /\ inflateCalls' = Append(inflateCalls, [result |-> "threw", message |-> m])
          /\ Throw(GzipError, <<m>>)
    /\ UNCHANGED <<buffer, pako, nbt, decompressedData, parseCalls, e, e2,
                   parsedStructureData, transformCalls>>
    /\ UNCHANGED <<repeatVars, pairVars, managerVars>>

\* NBT.parse(decompressedData.buffer) returns: return parsedStructureData
\* (the promise is fulfilled with the tree itself, no model is built)
LegacyParseReturns ==
    /\ pc = "parse"
    /\ parseCalls' = FallbackCall("returned")
    /\ \E tree \in DecoderTrees : parsedStructureData' = tree
    /\ pc' = "done"
    /\ outcome' = Fulfilled(NoValue)
    /\ UNCHANGED <<buffer, pako, nbt, decompressedData, inflateCalls, e, e2,
                   transformCalls>>
    /\ UNCHANGED <<repeatVars, pairVars, managerVars>>

\* NBT.parse(decompressedData.buffer) throws:
\* throw new Error(`NBT Parsing Error: ... (${e.message})`)
LegacyParseThrows ==
    /\ pc = "parse"
    /\ parseCalls' = FallbackCall("threw")
    /\ \E m \in Messages :
          /\ e' = m
          /\ Throw(NbtError, <<m>>)
    /\ UNCHANGED <<buffer, pako, nbt, decompressedData, inflateCalls, e2,
                   parsedStructureData, transformCalls>>
    /\ UNCHANGED <<repeatVars, pairVars, managerVars>>

NextLegacy ==
    \/ LegacyMissingPako
    \/ LegacyMissingNbt
    \/ LegacyInflateReturns
    \/ LegacyInflateThrows
    \/ LegacyParseReturns
    \/ LegacyParseThrows

SpecLegacy == Init /\ [][NextLegacy]_vars

(***************************************************************************)
(* Properties of transformStructure (checked under SpecTransform).         *)
(***************************************************************************)
Returned == pc = "done"
Model == outcome.value
InputSection == parsedStructureData.structure
InputLayers == InputSection.block_indices.items

\* C1: transformStructure never raises: whatever the shape of the size,
\* structure, palette and block_indices fields of the decoded tree (a
\* block_indices mapping keyed by layer index included), once it has been
\* called it has returned a structure model.
C1_TransformNeverRaises ==
    transformCalls > 0 => outcome.state = "fulfilled"

InputSize == NormalizeSize(parsedStructureData.size)
InputPaletteLength ==
    IF InputSection.palette.t = "array" THEN Len(InputSection.palette.items) ELSE 0
\* the key of the i-th layer record: its position, or its parsed string key
InputKey(i) ==
    IF InputSection.block_indices.t = "array" THEN Fin(i - 1)
    ELSE ParseInt(InputSection.block_indices.keys[i])
\* what buildBlocks builds for the tree
BuiltBlocks == BuildBlocks(InputSection, InputSize, InputPaletteLength)

\* the x and z of the linear index idx in a plane that is sx wide
PlaneX(idx, sx) == CHOOSE x \in 0..(sx - 1) : \E z \in 0..idx : idx = z * sx + x
PlaneZ(idx, sx) == CHOOSE z \in 0..idx : \E x \in 0..(sx - 1) : idx = z * sx + x

\* the linear indices of layer i that the claim says are examined and emit a voxel
EmittingIndices(i) ==
    LET data == InputLayers[i].items
        bound == InputSize.x.n * InputSize.z.n
        usable == IF Len(data) < bound THEN Len(data) ELSE bound
    IN  {idx \in 0..(usable - 1) :
            LET value == ToNumber(data[idx + 1])
            IN  value.k = "fin" /\ value.n >= 0 /\ value.n < InputPaletteLength}

ClaimedVoxel(i, idx) ==
    [x |-> Fin(PlaneX(idx, InputSize.x.n)),
     y |-> InputKey(i),
     z |-> Fin(PlaneZ(idx, InputSize.x.n)),
     paletteIndex |-> ToNumber(InputLayers[i].items[idx + 1])]

\* the pairs (layer record, linear index) that the claim says emit a voxel
EmittingPairs ==
    UNION {{<<i, idx>> : idx \in EmittingIndices(i)} :
              i \in {j \in DOMAIN InputLayers : InputLayers[j].t = "array"}}

\* C3: for every layer record (key, flat data array) buildBlocks examines
\* exactly the indices idx below min(data.length, size.x * size.z) and emits
\* exactly one voxel (x = idx mod size.x, z = floor(idx / size.x), y = key,
\* paletteIndex = the coerced value) for each idx whose coerced value is finite
\* and within [0, paletteLength); nothing else is emitted: every voxel occurs
\* in the built list as often as such pairs (record, idx) yield it, and the
\* list returned by transformStructure is the built list.
C3_VoxelsOfLayers ==
    /\ Returned => Model.blocks = BuiltBlocks
    /\ \A v \in {BuiltBlocks[j] : j \in DOMAIN BuiltBlocks}
                  \cup {ClaimedVoxel(q[1], q[2]) : q \in EmittingPairs} :
          Cardinality({j \in DOMAIN BuiltBlocks : BuiltBlocks[j] = v})
              = Cardinality({q \in EmittingPairs : ClaimedVoxel(q[1], q[2]) = v})

\* transformStructure has returned the voxels of a layer that is longer than
\* the plane or holds a value that emits no voxel, one of them in the second
\* row of the plane
C3_Witness ==
    /\ Returned
    /\ \E i \in DOMAIN InputLayers :
          /\ InputLayers[i].t = "array"
          /\ Len(InputLayers[i].items) > Cardinality(EmittingIndices(i))
    /\ \E j \in DOMAIN Model.blocks : Model.blocks[j].z = Fin(1)

\* C4: when block_indices is a mapping keyed by string-encoded layer index, the
\* transform returns a blocks list in which the voxels come in ascending order
\* of their layer's numeric key, each voxel's y being the parsed key of a layer.
C4_KeyedLayersAscending ==
    (/\ transformCalls > 0
     /\ InputSection.block_indices.t = "object"
     /\ Len(InputSection.block_indices.keys) > 1) =>
        /\ Returned
        /\ \A i, j \in DOMAIN Model.blocks :
              i < j => ~JsLt(Model.blocks[j].y, Model.blocks[i].y)
        /\ \A j \in DOMAIN Model.blocks :
              \E k \in DOMAIN InputSection.block_indices.keys :
                  Model.blocks[j].y = ParseInt(InputSection.block_indices.keys[k])

\* C5: every voxel returned lies inside the grid, 0 <= x < size.x,
\* 0 <= y < size.y, 0 <= z < size.z, and its paletteIndex is a position of the
\* returned palette.
C5_VoxelsInsideGrid ==
    Returned =>
        \A j \in DOMAIN Model.blocks :
            LET v == Model.blocks[j]
            IN  /\ JsGe(v.x, Fin(0)) /\ JsLt(v.x, Model.size.x)
                /\ JsGe(v.y, Fin(0)) /\ JsLt(v.y, Model.size.y)
                /\ JsGe(v.z, Fin(0)) /\ JsLt(v.z, Model.size.z)
                /\ v.paletteIndex.k = "fin"
                /\ v.paletteIndex.n + 1 \in DOMAIN Model.palette

\* C10: "minecraft:air" is never a key of the materials histogram.
C10_AirNeverCounted ==
    Returned => AirName \notin DOMAIN Model.materials

\* an occupancy value refers to a palette entry whose name lower-cases to
\* "minecraft:air", and the histogram counts another name
C10_Witness ==
    /\ Returned
    /\ Model.materials # <<>>
    /\ \E i \in DOMAIN InputLayers :
          /\ InputLayers[i].t = "array"
          /\ \E k \in DOMAIN InputLayers[i].items :
                LET index == ToNumber(InputLayers[i].items[k])
                IN  /\ index.k = "fin"
                    /\ index.n + 1 \in DOMAIN Model.palette
                    /\ Model.palette[index.n + 1].name = StringVal(AirNameUpper)

\* the lower-cased name of the returned palette entry at position i
ModelName(i) == ToLowerCase(Model.palette[i].name.s)

\* the positions (layer, place) of the raw occupancy values, over every layer
\* and every place of the layer, whose coerced value is a finite ordinal of the
\* returned palette whose entry name lower-cases to n
CountedPlaces(n) ==
    UNION {{<<i, k>> : k \in {m \in DOMAIN InputLayers[i].items :
                                 LET value == ToNumber(InputLayers[i].items[m])
                                 IN  /\ value.k = "fin"
                                     /\ value.n + 1 \in DOMAIN Model.palette
                                     /\ ModelName(value.n + 1) = n}} :
              i \in {j \in DOMAIN InputLayers : InputLayers[j].t = "array"}}

\* the names the histogram may hold: the lower-cased names of the palette
ModelNames == {ModelName(i) : i \in DOMAIN Model.palette}

\* the histogram holds n with exactly the number of counted places, or, when
\* there is none, does not hold n
CountsExactly(n) ==
    IF CountedPlaces(n) = {} THEN n \notin DOMAIN Model.materials
    ELSE /\ n \in DOMAIN Model.materials
         /\ Model.materials[n] = Cardinality(CountedPlaces(n))

\* C11 as stated: for every non-air lower-cased block name n the materials
\* count of n is the number of raw occupancy values, over every layer and every
\* place of the layer (not truncated to size.x * size.z), whose coerced value
\* is a finite ordinal in [0, paletteLength) and whose palette entry name
\* lower-cases to n; names with no such value are absent.
C11_CountsEveryName ==
    Returned =>
        /\ DOMAIN Model.materials \subseteq ModelNames \ {AirName}
        /\ \A n \in ModelNames \ {AirName} : CountsExactly(n)

\* C11 amended: the same for every non-air name that is not the empty string;
\* the empty name is never a key of the histogram.
C11_CountsEveryNonEmptyName ==
    Returned =>
        /\ DOMAIN Model.materials \subseteq ModelNames \ {AirName, <<>>}
        /\ \A n \in ModelNames \ {AirName, <<>>} : CountsExactly(n)

\* the histogram counts more stone values than voxels are returned (the layers
\* are longer than the plane), the value 0 among them
C11_Witness ==
    /\ Returned
    /\ StoneName \in DOMAIN Model.materials
    /\ Model.materials[StoneName] > Len(Model.blocks)
    /\ \E q \in CountedPlaces(StoneName) :
          ToNumber(InputLayers[q[1]].items[q[2]]) = Fin(0)

\* the i-th element of the top-level size sequence (undefined when absent)
SizeElement(i) == At(parsedStructureData.size.items, i)

\* what the claim says of the component taken from the i-th element: its
\* number, or 0 when the element is absent or not coercible to a number
ClaimedComponent(i) ==
    IF IsNullish(SizeElement(i)) \/ JsNumber(SizeElement(i)) = NaN THEN Fin(0)
    ELSE JsNumber(SizeElement(i))

\* C12: size extraction yields three numbers taken from the first three
\* elements of the top-level size sequence, with 0 substituted for every
\* element that is absent or not coercible to a number; a tree with no size
\* field yields {x: 0, y: 0, z: 0}.
C12_SizeDefaultsToZero ==
    Returned =>
        /\ Model.size.x = ClaimedComponent(0)
        /\ Model.size.y = ClaimedComponent(1)
        /\ Model.size.z = ClaimedComponent(2)
        /\ parsedStructureData.size.t = "undefined" => Model.size = NoSize

\* the source palette entries of the tree
InputPalette ==
    IF InputSection.palette.t = "array" THEN InputSection.palette.items ELSE <<>>

\* the returned palette has one entry per source palette entry, in source order
PaletteFollowsSource ==
    /\ Len(Model.palette) = Len(InputPalette)
    /\ \A i \in DOMAIN InputPalette :
          /\ Model.palette[i].index = i - 1
          /\ Model.palette[i].name =
                 Coalesce(EntryName(InputPalette[i]), StringVal(UnknownName))

\* C13: whenever a component of the extracted size (x, y or z) is 0, the
\* returned blocks list is empty and the returned palette has one entry per
\* source palette entry, in source order, as for a non-zero size.
C13_ZeroSizeNoVoxels ==
    (/\ Returned
     /\ Fin(0) \in {Model.size.x, Model.size.y, Model.size.z}) =>
        /\ Model.blocks = <<>>
        /\ PaletteFollowsSource

HasGzipSignature == Len(buffer) >= 2 /\ buffer[1] = 31 /\ buffer[2] = 139

GatePassed == pc # "gate"

\* every call of the decoder was handed the input bytes
DecoderGotInput == \A i \in DOMAIN parseCalls : parseCalls[i].bytes = buffer

\* C2, as stated: once the gate has run, inflate has been invoked if and only
\* if the buffer has at least 2 bytes and starts with the gzip magic; for every
\* other buffer inflate is not invoked and the decoder is handed the input bytes.
C2_InflateIffSignature ==
    GatePassed =>
        /\ (inflateCalls # <<>>) <=> HasGzipSignature
        /\ ~HasGzipSignature => DecoderGotInput

\* C2, amended: inflate is invoked (once) if and only if the buffer carries the
\* signature and the inflate primitive is available; a buffer with the
\* signature and no primitive fails with the missing-pako error, inflate and
\* the decoder not being invoked; every other buffer goes to the decoder
\* unchanged.
C2_InflateIffSignatureAndPrimitive ==
    GatePassed =>
        /\ (inflateCalls # <<>>) <=> (HasGzipSignature /\ pako)
        /\ Len(inflateCalls) <= 1
        /\ (HasGzipSignature /\ ~pako) =>
              (outcome.state = "rejected" /\ outcome.kind = PakoMissing /\ parseCalls = <<>>)
        /\ ~HasGzipSignature => (decompressedData = buffer /\ DecoderGotInput)

\* inflate has run on a buffer with the signature and the decoder was handed
\* its output, not the input
C2_Witness ==
    /\ HasGzipSignature
    /\ Len(inflateCalls) = 1
    /\ parseCalls # <<>>
    /\ parseCalls[1].bytes # buffer

Failed(call) == call.result \in {"threw", "rejected"}
Succeeded(call) == call.result \in {"returned", "fulfilled"}

\* C6: the decoder is invoked first with the byte view; the underlying buffer
\* is tried once, and only after the primary attempt failed (by a throw or by a
\* rejected promise); there are never more than two invocations, and none
\* follows a primary attempt that succeeded.
C6_FallbackOnlyAfterFailure ==
    /\ Len(parseCalls) <= 2
    /\ parseCalls # <<>> => parseCalls[1].form = "view"
    /\ Len(parseCalls) = 2 => (parseCalls[2].form = "buffer" /\ Failed(parseCalls[1]))
    /\ (parseCalls # <<>> /\ Succeeded(parseCalls[1])) => Len(parseCalls) = 1
    /\ (parseCalls # <<>> /\ Failed(parseCalls[1]) /\ pc \in {"done", "failed"}) =>
          Len(parseCalls) = 2

\* the primary promise was rejected, the fallback returned, the call completed
C6_Witness ==
    /\ pc = "done"
    /\ Len(parseCalls) = 2
    /\ parseCalls[1].result = "rejected"
    /\ Succeeded(parseCalls[2])

BothAttemptsFailed ==
    Len(parseCalls) = 2 /\ Failed(parseCalls[1]) /\ Failed(parseCalls[2])

\* the message with these details quotes m (an empty m is quoted by any message)
Quotes(detail, m) == m = "" \/ \E i \in DOMAIN detail : detail[i] = m

\* C7, as stated: when both attempts fail the call fails with the decode error,
\* its message quoting both underlying messages, and the transform is not invoked.
C7_DecodeErrorWrapsBoth ==
    BothAttemptsFailed =>
        /\ outcome.state = "rejected" /\ outcome.kind = NbtError
        /\ Quotes(outcome.detail, e)
        /\ Quotes(outcome.detail, e2)
        /\ transformCalls = 0

\* C7, amended: when both attempts fail the call fails with the decode error,
\* its message quoting one underlying message: the primary attempt's, or the
\* fallback attempt's when the primary's is empty; the transform is not invoked.
C7_DecodeErrorWrapsFirstMessage ==
    BothAttemptsFailed =>
        /\ outcome.state = "rejected" /\ outcome.kind = NbtError
        /\ e # "" => outcome.detail = <<e>>
        /\ e = "" => outcome.detail = <<e2>>
        /\ transformCalls = 0

\* both attempts failed with different non-empty messages
C7_Witness ==
    /\ BothAttemptsFailed
    /\ e = "m1"
    /\ e2 = "m2"
    /\ pc = "failed"

\* C8: when the input carries the signature and inflate fails, the call fails
\* with the decompression error quoting inflate's message; inflate was tried
\* once and neither the decoder nor the transform is invoked.
C8_InflateFailureAborts ==
    \A i \in DOMAIN inflateCalls :
        inflateCalls[i].result = "threw" =>
            /\ Len(inflateCalls) = 1
            /\ pc = "failed"
            /\ outcome = Rejected(GzipError, <<inflateCalls[i].message>>)
            /\ parseCalls = <<>>
            /\ transformCalls = 0

\* inflate has failed on a buffer with the signature
C8_Witness ==
    /\ HasGzipSignature
    /\ inflateCalls = <<[result |-> "threw", message |-> "m1"]>>

\* C9: a missing primitive is a configuration error of its own: with the
\* signature present and no inflate the call fails with the missing-pako error,
\* and with no NBT.parse the call that reaches the decoder fails with an error
\* that is neither the decompression error nor the decode (parsing) error.
C9_MissingPrimitiveDistinct ==
    pc = "failed" =>
        /\ (HasGzipSignature /\ ~pako) => outcome.kind = PakoMissing
        /\ (~nbt /\ decompressedData = buffer /\ ~HasGzipSignature) =>
              outcome.kind \notin {GzipError, NbtError}

(***************************************************************************)
(* Properties of two calls in flight together (checked under SpecPair).    *)
(***************************************************************************)
\* the bytes a call run alone hands to the decoder: its own buffer, or what
\* inflate returned to it
OwnDecoderInput(l) ==
    IF l.inflateCalls # <<>> THEN l.inflateCalls[1].output ELSE l.buffer

\* the message of the i-th failed decode attempt of a call
AttemptMessage(l, i) ==
    IF i \in DOMAIN l.parseCalls THEN l.parseCalls[i].message ELSE NotAFunction

\* the result a call run alone produces from its own buffer and from what the
\* collaborators answered to it
AloneOutcome(l) ==
    LET signed == Len(l.buffer) >= 2 /\ l.buffer[1] = 31 /\ l.buffer[2] = 139
        last == l.parseCalls[Len(l.parseCalls)]
    IN  IF signed /\ ~pako THEN Rejected(PakoMissing, <<>>)
        ELSE IF signed /\ l.inflateCalls[1].result = "threw"
        THEN Rejected(GzipError, <<l.inflateCalls[1].message>>)
        ELSE IF l.parseCalls # <<>> /\ last.result \in {"returned", "fulfilled"}
        THEN IF TransformStructure(last.reply).threw THEN Rejected(TypeError, <<>>)
             ELSE Fulfilled(TransformStructure(last.reply))
        ELSE Rejected(NbtError,
                      <<IF AttemptMessage(l, 1) # "" THEN AttemptMessage(l, 1)
                        ELSE AttemptMessage(l, 2)>>)

\* C15: two calls of parseMCStructureBinary whose steps interleave at the awaits
\* of the decoder do not interfere: each call hands the decoder its own bytes,
\* and the result or error of each call is the one it produces when run alone
\* on its own buffer with the same answers of its collaborators.
C15_CallsDoNotInterfere ==
    \A c \in Callers :
        /\ \A i \in DOMAIN calls[c].parseCalls :
              calls[c].parseCalls[i].bytes = OwnDecoderInput(calls[c])
        /\ Over(calls[c]) => calls[c].outcome = AloneOutcome(calls[c])
        /\ ~Over(calls[c]) => calls[c].outcome = Pending

\* both calls are in flight, one awaiting its first decoder promise, the other
\* resumed once and awaiting its fallback promise, on different bytes
C15_Witness ==
    /\ calls # <<>>
    /\ calls[1].pc = "awaitAlt"
    /\ calls[2].pc = "await"
    /\ calls[1].parseCalls[1].result = "rejected"
    /\ calls[1].decompressedData # calls[2].decompressedData

(***************************************************************************)
(* Properties of ResourcePackTextureManager (checked under SpecManager).   *)
(***************************************************************************)
\* C16: every entry of textureCache and of materialCache was loaded from the
\* current source (or is a new, blank texture): after setZipFile or
\* clearZipSource has switched the source and reset the caches, no call of
\* loadTextureAsset or getBlockVisual begun before the switch inserts a texture
\* or a visual obtained from the previous source.
C16_CachesHoldCurrentSource ==
    /\ \A k \in DOMAIN textureCache :
          textureCache[k] \in {Texture(CurrentSource), BlankTexture}
    /\ \A k \in DOMAIN materialCache :
          materialCache[k] \in {Texture(CurrentSource), BlankTexture}

====
